---- MODULE Spec2Model ----
(***************************************************************************)
(* A model of JSONSourceCode (src/src/languages/json-source-code.js): the  *)
(* token boundary maps built by processTokens, the token navigation        *)
(* (getTokenBefore / getTokenAfter), the cached traversal (traverse,       *)
(* getParent) and the inline-configuration comments (getInlineConfigNodes, *)
(* getDisableDirectives, applyInlineConfig).                               *)
(*                                                                         *)
(* Conventions.  Array indices are the 0-based indices of the JavaScript   *)
(* code; At(s, i) reads a 0-based index of a TLA+ sequence.  A token       *)
(* object is identified by its index in ast.tokens; null is NullTok.  An   *)
(* optional value (a field that may be undefined) is a set with at most    *)
(* one element: None is undefined, Some(v) is v.  Text is a sequence of    *)
(* lexemes: comment delimiters, whitespace runs and words (maximal runs of *)
(* non-whitespace characters).                                             *)
(***************************************************************************)
EXTENDS Integers, Sequences, FiniteSets, TLC

VARIABLES
    ast,                    \* this.ast: [size, children], the root is node 1
    tokens,                 \* this.ast.tokens
    comments,               \* this.comments: indices of the comment tokens
    tokenStarts,            \* this.#tokenStarts: start offset -> index
    tokenEnds,              \* this.#tokenEnds: end offset -> index
    steps,                  \* this.#steps: None, or Some(array of steps)
    parents,                \* this.#parents: node -> parent
    inlineConfigComments,   \* this.#inlineConfigComments: None, or Some(array)
    results,                \* what the calls of traverse() returned, in order
    walks,                  \* history: how often traverse() walked the AST
    ret                     \* the last operation and what it returned

vars == <<ast, tokens, comments, tokenStarts, tokenEnds, steps, parents,
          inlineConfigComments, results, walks, ret>>

-----------------------------------------------------------------------------
(* Bounds of the model.                                                    *)

MaxTokens == 3      \* longest token array of the navigation inputs
MaxDirTokens == 2   \* longest token array of the inline-configuration inputs
MaxNodes == 4       \* largest AST
MaxCalls == 2       \* calls of traverse() in one behaviour
MaxCallerNodes == 2 \* largest AST where the caller's iterations are followed

-----------------------------------------------------------------------------
(* Generic helpers.                                                        *)

None == {}
Some(v) == {v}
Get(o) == CHOOSE v \in o : TRUE

At(s, i) == s[i + 1]

NullTok == 0 - 1
Undefined == 0

RECURSIVE SeqsUpTo(_, _)
SeqsUpTo(S, n) ==
    IF n = 0 THEN {<<>>}
    ELSE LET shorter == SeqsUpTo(S, n - 1)
         IN  shorter \cup {Append(s, x) : s \in {t \in shorter : Len(t) = n - 1}, x \in S}

RECURSIVE Concat(_)
Concat(ss) == IF ss = <<>> THEN <<>> ELSE Head(ss) \o Concat(Tail(ss))

-----------------------------------------------------------------------------
(* Tokens.                                                                 *)

CodeType == "String"
CommentTypes == {"LineComment", "BlockComment", "DocComment"}

\* token.type.endsWith("Comment"), on the type names of the model
EndsWithComment(type) == type \in CommentTypes

WS == {" ", "\n"}

\* Token prototypes: type, raw text, width of the range, number of lines.
\* A token may be zero-width (spec sections 3 and 9).
Code1 == [type |-> CodeType, text |-> <<"x">>, width |-> 1, lines |-> 1]
Code0 == [type |-> CodeType, text |-> <<>>, width |-> 0, lines |-> 1]
LinePlain == [type |-> "LineComment", text |-> <<"//", " ", "note">>, width |-> 1, lines |-> 1]
BlockPlain == [type |-> "BlockComment", text |-> <<"/*", "note", "*/">>, width |-> 1, lines |-> 1]

LineEmpty == [type |-> "LineComment", text |-> <<>>, width |-> 0, lines |-> 1]

NavProtos == {Code1, Code0, LinePlain, BlockPlain, LineEmpty}

\* The token array laid out from prototypes: consecutive ranges from offset 0.
RECURSIVE Layout(_, _)
Layout(protos, from) ==
    IF protos = <<>> THEN <<>>
    ELSE LET p == Head(protos)
             t == [type |-> p.type,
                   text |-> p.text,
                   range |-> <<from, from + p.width>>,
                   loc |-> [start |-> [line |-> 1], end |-> [line |-> p.lines]]]
         IN  <<t>> \o Layout(Tail(protos), from + p.width)

IsComment(toks, i) == EndsWithComment(At(toks, i).type)

-----------------------------------------------------------------------------
(* processTokens and the constructor.                                      *)

MapSet(m, k, v) == [x \in DOMAIN m \cup {k} |-> IF x = k THEN v ELSE m[x]]
EmptyMap == [x \in {} |-> 0]

\* Variant: the first token of an offset keeps it (no overwrite).
processTokensStepFirstWins(toks, i, acc) ==
    LET token == At(toks, i)
        keep(m, k) == IF k \in DOMAIN m THEN m ELSE MapSet(m, k, i)
    IN  [comments |-> IF EndsWithComment(token.type)
                      THEN Append(acc.comments, i) ELSE acc.comments,
         starts |-> keep(acc.starts, token.range[1]),
         ends |-> keep(acc.ends, token.range[2])]

processTokensStep(toks, i, acc) ==
    LET token == At(toks, i)
    IN  [comments |-> IF EndsWithComment(token.type)
                      THEN Append(acc.comments, i) ELSE acc.comments,
         starts |-> MapSet(acc.starts, token.range[1], i),
         ends |-> MapSet(acc.ends, token.range[2], i)]

RECURSIVE processTokensLoop(_, _, _)
processTokensLoop(toks, i, acc) ==
    IF i < Len(toks)
    THEN processTokensLoop(toks, i + 1, processTokensStep(toks, i, acc))
    ELSE acc

processTokens(toks) ==
    processTokensLoop(toks, 0, [comments |-> <<>>, starts |-> EmptyMap, ends |-> EmptyMap])

-----------------------------------------------------------------------------
(* Token navigation.                                                       *)

\* Variant: an if in place of the while, one comment is skipped.
SkipBackOnce(toks, previousIndex) ==
    IF IsComment(toks, previousIndex)
    THEN IF previousIndex - 1 < 0 THEN NullTok ELSE previousIndex - 1
    ELSE previousIndex

\* The while loop of getTokenBefore: skip comments backwards.
RECURSIVE SkipBack(_, _)
SkipBack(toks, previousIndex) ==
    IF IsComment(toks, previousIndex)
    THEN IF previousIndex - 1 < 0 THEN NullTok ELSE SkipBack(toks, previousIndex - 1)
    ELSE previousIndex

\* Variant: the guard of the first token off by one (<= 0 in place of < 0).
getTokenBeforeEarlyNull(toks, starts, range, includeComments) ==
    IF range[1] \notin DOMAIN starts THEN NullTok
    ELSE LET previousIndex == starts[range[1]] - 1
         IN  IF previousIndex <= 0 THEN NullTok
             ELSE IF includeComments THEN previousIndex
             ELSE SkipBack(toks, previousIndex)

getTokenBefore(toks, starts, range, includeComments) ==
    IF range[1] \notin DOMAIN starts THEN NullTok
    ELSE LET previousIndex == starts[range[1]] - 1
         IN  IF previousIndex < 0 THEN NullTok
             ELSE IF includeComments THEN previousIndex
             ELSE SkipBack(toks, previousIndex)

\* Variant: an if in place of the while, one comment is skipped.
SkipForwardOnce(toks, nextIndex) ==
    IF IsComment(toks, nextIndex)
    THEN IF nextIndex + 1 >= Len(toks) THEN NullTok ELSE nextIndex + 1
    ELSE nextIndex

\* The while loop of getTokenAfter: skip comments forwards.
RECURSIVE SkipForward(_, _)
SkipForward(toks, nextIndex) ==
    IF IsComment(toks, nextIndex)
    THEN IF nextIndex + 1 >= Len(toks) THEN NullTok ELSE SkipForward(toks, nextIndex + 1)
    ELSE nextIndex

\* Variant: the index of the map is not stepped (index in place of index + 1).
getTokenAfterNoStep(toks, ends, range, includeComments) ==
    IF range[2] \notin DOMAIN ends THEN NullTok
    ELSE LET nextIndex == ends[range[2]]
         IN  IF nextIndex >= Len(toks) THEN NullTok
             ELSE IF includeComments THEN nextIndex
             ELSE SkipForward(toks, nextIndex)

getTokenAfter(toks, ends, range, includeComments) ==
    IF range[2] \notin DOMAIN ends THEN NullTok
    ELSE LET nextIndex == ends[range[2]] + 1
         IN  IF nextIndex >= Len(toks) THEN NullTok
             ELSE IF includeComments THEN nextIndex
             ELSE SkipForward(toks, nextIndex)

\* The arguments of the navigation: a token or node that spans the tokens
\* first..last of the array (a token spans itself), or a node whose offsets
\* lie outside every token (first = last = NullTok).
SpanArgs(toks) ==
    UNION {{[first |-> i, last |-> j,
             range |-> <<At(toks, i).range[1], At(toks, j).range[2]>>] :
               j \in {i, Len(toks) - 1}} : i \in 0 .. Len(toks) - 1}

OutsideArg(toks) ==
    LET far == IF toks = <<>> THEN 1 ELSE At(toks, Len(toks) - 1).range[2] + 1
    IN  [first |-> NullTok, last |-> NullTok, range |-> <<far, far + 1>>]

NavArgs(toks) == SpanArgs(toks) \cup {OutsideArg(toks)}

GetTokenBefore ==
    /\ \E x \in NavArgs(tokens), includeComments \in BOOLEAN :
         ret' = [op |-> "getTokenBefore", arg |-> x, includeComments |-> includeComments,
                 value |-> getTokenBefore(tokens, tokenStarts, x.range, includeComments)]
    /\ UNCHANGED <<ast, tokens, comments, tokenStarts, tokenEnds, steps, parents,
                   inlineConfigComments, results, walks>>

GetTokenAfter ==
    /\ \E x \in NavArgs(tokens), includeComments \in BOOLEAN :
         ret' = [op |-> "getTokenAfter", arg |-> x, includeComments |-> includeComments,
                 value |-> getTokenAfter(tokens, tokenEnds, x.range, includeComments)]
    /\ UNCHANGED <<ast, tokens, comments, tokenStarts, tokenEnds, steps, parents,
                   inlineConfigComments, results, walks>>

-----------------------------------------------------------------------------
(* The AST and its traversal.                                              *)

\* The nodes of an AST are 1 .. size, the root is node 1 and children[n] is
\* the child sequence of n, as the parser built it.  Stranger is a node
\* object that is no part of the document.
Nodes(a) == 1 .. a.size
Stranger(a) == a.size + 1

RECURSIVE SortedSeq(_, _)
SortedSeq(S, descending) ==
    IF S = {} THEN <<>>
    ELSE LET x == CHOOSE y \in S : \A z \in S : IF descending THEN z <= y ELSE y <= z
         IN  <<x>> \o SortedSeq(S \ {x}, descending)

\* Every tree of n nodes in which a parent has a smaller name than its
\* children; the child sequences ascend or descend by name.
TreesOfSize(n) ==
    {[size |-> n,
      children |-> [m \in 1 .. n |-> SortedSeq({c \in 2 .. n : up[c] = m}, descending)]] :
        up \in {f \in [2 .. n -> 1 .. n] : \A c \in 2 .. n : f[c] < c},
        descending \in BOOLEAN}

ASTs == UNION {TreesOfSize(n) : n \in 1 .. MaxNodes}

\* iterator(root) of @humanwhocodes/momoa: the enter and exit events of the
\* depth-first walk, each with the node and its parent (undefined at the root).
RECURSIVE visitNode(_, _, _)
visitChildren(a, kids, parent) ==
    Concat([k \in DOMAIN kids |-> visitNode(a, kids[k], parent)])

visitNode(a, node, parent) ==
    <<[node |-> node, parent |-> parent, phase |-> "enter"]>>
    \o visitChildren(a, a.children[node], node)
    \o <<[node |-> node, parent |-> parent, phase |-> "exit"]>>

iterator(a) == visitNode(a, 1, Undefined)

\* Variant: the phases exchanged.
JSONTraversalStepSwapped(ev) ==
    [target |-> ev.node,
     phase |-> IF ev.phase = "enter" THEN 2 ELSE 1,
     args |-> <<ev.node, ev.parent>>]

\* new JSONTraversalStep({ target, phase, args }) for one event of the walk
JSONTraversalStep(ev) ==
    [target |-> ev.node,
     phase |-> IF ev.phase = "enter" THEN 1 ELSE 2,
     args |-> <<ev.node, ev.parent>>]

\* Variant: key and value of the parent link exchanged.
recordParentSwapped(map, ev) ==
    IF ev.parent # Undefined THEN MapSet(map, ev.parent, ev.node) ELSE map

\* The body of the for loop of traverse() for one event: the parent link.
recordParent(map, ev) ==
    IF ev.parent # Undefined THEN MapSet(map, ev.node, ev.parent) ELSE map

RECURSIVE traverseLoop(_, _, _, _)
traverseLoop(evs, i, map, acc) ==
    IF i < Len(evs)
    THEN traverseLoop(evs, i + 1, recordParent(map, At(evs, i)),
                      Append(acc, JSONTraversalStep(At(evs, i))))
    ELSE [steps |-> acc, parents |-> map]

\* Variant: the cache is never used.
stepsNeverCached(st) == FALSE

\* Whether traverse() takes the cached branch.
stepsCached(st) == st # None

\* traverse(): the first call walks the AST and returns the cached array
\* itself; a later call returns this.#steps.values(), a new array iterator.
\* A result records its kind, the sequence it iterates when returned and, for
\* the caller's use of it, the cursor and what it has yielded.
Traverse ==
    /\ Len(results) < MaxCalls
    /\ IF stepsCached(steps)
       THEN /\ results' = Append(results, [kind |-> "iterator", seq |-> Get(steps),
                                           pos |-> 0, out |-> <<>>])
            /\ ret' = [op |-> "traverse", kind |-> "iterator"]
            /\ UNCHANGED <<steps, parents, walks>>
       ELSE LET w == traverseLoop(iterator(ast), 0, parents, <<>>)
            IN  /\ steps' = Some(w.steps)
                /\ parents' = w.parents
                /\ walks' = walks + 1
                /\ results' = Append(results, [kind |-> "array", seq |-> w.steps,
                                               pos |-> 0, out |-> <<>>])
                /\ ret' = [op |-> "traverse", kind |-> "array"]
    /\ UNCHANGED <<ast, tokens, comments, tokenStarts, tokenEnds, inlineConfigComments>>

getParent(map, node) == IF node \in DOMAIN map THEN map[node] ELSE Undefined

GetParent ==
    /\ \E node \in Nodes(ast) \cup {Stranger(ast)} :
         ret' = [op |-> "getParent", node |-> node, value |-> getParent(parents, node)]
    /\ UNCHANGED <<ast, tokens, comments, tokenStarts, tokenEnds, steps, parents,
                   inlineConfigComments, results, walks>>

-----------------------------------------------------------------------------
(* Inline-configuration comments.                                          *)

\* The comments of the inline-configuration inputs (scenarios A to D of the
\* spec among them).  "r" is a rule name, "r:2" a rule configuration that
\* parses and "bad" one that does not.
LineDisableLine ==
    [type |-> "LineComment", width |-> 1, lines |-> 1,
     text |-> <<"//", " ", "eslint-disable-line", " ", "r", " ", "--", " ", "why">>]
BlockDisableLineMulti ==
    [type |-> "BlockComment", width |-> 1, lines |-> 2,
     text |-> <<"/*", " ", "eslint-disable-line", "\n", "r", " ", "*/">>]
BlockEslintOk ==
    [type |-> "BlockComment", width |-> 1, lines |-> 1,
     text |-> <<"/*", " ", "eslint", " ", "r:2", " ", "*/">>]
LineEslintBad ==
    [type |-> "LineComment", width |-> 1, lines |-> 1,
     text |-> <<"//", "eslint", " ", "bad">>]
LineEslintDashes ==
    [type |-> "LineComment", width |-> 1, lines |-> 1,
     text |-> <<"//", " ", "eslint", " ", "--", " ", "r:2">>]
BlockDisableMulti ==
    [type |-> "BlockComment", width |-> 1, lines |-> 2,
     text |-> <<"/*", "eslint-disable", "\n", "r", "\n", "*/">>]
LineEnable ==
    [type |-> "LineComment", width |-> 1, lines |-> 1,
     text |-> <<"//", "eslint-enable">>]
BlockNextLine ==
    [type |-> "BlockComment", width |-> 1, lines |-> 1,
     text |-> <<"/*", " ", "eslint-disable-next-line", " ", "r", " ", "---", " ", "why", " ", "*/">>]
LineOther ==
    [type |-> "LineComment", width |-> 1, lines |-> 1,
     text |-> <<"//", "eslint-foo", " ", "r">>]
DocBad ==
    [type |-> "DocComment", width |-> 1, lines |-> 1,
     text |-> <<"#", "eslint">>]

DirProtos ==
    {Code1, LineDisableLine, BlockDisableLineMulti, BlockEslintOk, LineEslintBad,
     LineEslintDashes, BlockDisableMulti, LineEnable, BlockNextLine, LineOther, DocBad}

\* A call either returns a value or throws.
Returned(v) == [threw |-> FALSE, value |-> v]
Thrown(what) == [threw |-> TRUE, error |-> what]

\* Variant: a comment of another type is taken as it is.
getCommentValueLenient(comment) ==
    IF comment.type = "LineComment"
    THEN Returned(SubSeq(comment.text, 2, Len(comment.text)))
    ELSE IF comment.type = "BlockComment"
    THEN Returned(SubSeq(comment.text, 2, Len(comment.text) - 1))
    ELSE Returned(comment.text)

\* getText(comment) is the raw text of the token; slice(2) drops the
\* delimiter lexeme at the front, slice(2, -2) the one at the back too.
getCommentValue(comment) ==
    IF comment.type = "LineComment"
    THEN Returned(SubSeq(comment.text, 2, Len(comment.text)))
    ELSE IF comment.type = "BlockComment"
    THEN Returned(SubSeq(comment.text, 2, Len(comment.text) - 1))
    ELSE Thrown(<<"Unexpected comment type", comment.type>>)

RECURSIVE TrimStart(_)
TrimStart(t) == IF t # <<>> /\ Head(t) \in WS THEN TrimStart(Tail(t)) ELSE t

RECURSIVE TrimEnd(_)
TrimEnd(t) ==
    IF t # <<>> /\ t[Len(t)] \in WS THEN TrimEnd(SubSeq(t, 1, Len(t) - 1)) ELSE t

Trim(t) == TrimEnd(TrimStart(t))

\* The labels INLINE_CONFIG recognises:
\* eslint(?:-enable|-disable(?:(?:-next)?-line)?)?
InlineLabels ==
    {"eslint", "eslint-enable", "eslint-disable", "eslint-disable-line",
     "eslint-disable-next-line"}

\* INLINE_CONFIG.test(text): ^\s* label (?:\s|$)
INLINE_CONFIG(text) ==
    LET rest == TrimStart(text)
    IN  /\ rest # <<>>
        /\ Head(rest) \in InlineLabels
        /\ (Len(rest) = 1 \/ rest[2] \in WS)

\* The words of the model that match [a-z]+(?:-[a-z]+)* as a whole.
LabelShaped ==
    InlineLabels \cup {"eslint-foo", "note", "r", "why", "bad", "x"}

\* A word of two or more dashes.
Dashes == {"--", "---"}

\* ConfigCommentParser.parseDirective: the text is cut at the first
\* \s-{2,}\s into the directive and the justification; the directive must
\* start with a label followed by whitespace or the end, else the result is
\* undefined.
parseDirective(text) ==
    LET cuts == {k \in 2 .. Len(text) - 1 :
                    text[k] \in Dashes /\ text[k - 1] \in WS /\ text[k + 1] \in WS}
        cut == IF cuts = {} THEN 0 ELSE CHOOSE k \in cuts : \A j \in cuts : k <= j
        directivePart == IF cut = 0 THEN Trim(text) ELSE Trim(SubSeq(text, 1, cut - 2))
        justificationPart ==
            IF cut = 0 THEN <<>> ELSE Trim(SubSeq(text, cut + 2, Len(text)))
    IN  IF /\ directivePart # <<>>
           /\ Head(directivePart) \in LabelShaped
           /\ (Len(directivePart) = 1 \/ directivePart[2] \in WS)
        THEN Some([label |-> Head(directivePart),
                   value |-> Trim(Tail(directivePart)),
                   justification |-> justificationPart])
        ELSE None

\* ConfigCommentParser.parseJSONLikeConfig: the empty text is the empty
\* configuration.
parseJSONLikeConfig(value) ==
    IF value = <<>> THEN [ok |-> TRUE, config |-> {}]
    ELSE IF value = <<"r:2">> THEN [ok |-> TRUE, config |-> {<<"r", 2>>}]
    ELSE [ok |-> FALSE, error |-> [message |-> <<"Failed to parse JSON from", value>>]]

\* this.comments.filter(comment => INLINE_CONFIG.test(this.#getCommentValue(comment)))
RECURSIVE filterComments(_, _, _, _)
filterComments(toks, cs, i, acc) ==
    IF i < Len(cs)
    THEN LET v == getCommentValue(At(toks, At(cs, i)))
         IN  IF v.threw THEN v
             ELSE filterComments(toks, cs, i + 1,
                                 IF INLINE_CONFIG(v.value) THEN Append(acc, At(cs, i)) ELSE acc)
    ELSE Returned(acc)

\* getInlineConfigNodes(): the value returned or the error thrown, and the
\* cache afterwards.
getInlineConfigNodes(toks, cs, cache) ==
    IF cache # None THEN [call |-> Returned(Get(cache)), cache |-> cache]
    ELSE LET f == filterComments(toks, cs, 0, <<>>)
         IN  IF f.threw THEN [call |-> f, cache |-> cache]
             ELSE [call |-> f, cache |-> Some(f.value)]

GetInlineConfigNodes ==
    LET g == getInlineConfigNodes(tokens, comments, inlineConfigComments)
    IN  /\ inlineConfigComments' = g.cache
        /\ ret' = [op |-> "getInlineConfigNodes", call |-> g.call]
        /\ UNCHANGED <<ast, tokens, comments, tokenStarts, tokenEnds, steps, parents,
                       results, walks>>

\* Variant: the label is not sliced.
directiveTypeUnsliced(label) == label

\* label.slice("eslint-".length)
directiveType(label) ==
    CASE label = "eslint-disable" -> "disable"
      [] label = "eslint-enable" -> "enable"
      [] label = "eslint-disable-next-line" -> "disable-next-line"
      [] label = "eslint-disable-line" -> "disable-line"

DirectiveLabels ==
    {"eslint-disable", "eslint-enable", "eslint-disable-next-line", "eslint-disable-line"}

\* Variant: === in place of !==.
spansLinesInverted(comment) == comment.loc.start.line = comment.loc.end.line

\* comment.loc.start.line !== comment.loc.end.line
spansLines(comment) == comment.loc.start.line # comment.loc.end.line

\* The callback of getDisableDirectives for one comment: what it adds to
\* problems and directives, or the error it throws (#getCommentValue's, or
\* the TypeError of destructuring undefined).  The field "of" of a problem
\* is the identity of the loc object it shares with its comment.
disableDirectiveOf(toks, c, acc) ==
    LET comment == At(toks, c)
        text == getCommentValue(comment)
        parsed == parseDirective(text.value)
    IN  IF text.threw THEN text
        ELSE IF parsed = None THEN Thrown("TypeError")
        ELSE LET d == Get(parsed)
             IN  IF d.label = "eslint-disable-line" /\ spansLines(comment)
                 THEN Returned([problems |-> Append(acc.problems,
                                    [ruleId |-> "null",
                                     message |-> <<d.label, "comment should not span multiple lines.">>,
                                     loc |-> comment.loc,
                                     of |-> c]),
                                directives |-> acc.directives])
                 ELSE IF d.label \in DirectiveLabels
                 THEN Returned([problems |-> acc.problems,
                                directives |-> Append(acc.directives,
                                    [type |-> directiveType(d.label),
                                     node |-> c,
                                     value |-> d.value,
                                     justification |-> d.justification])])
                 ELSE Returned(acc)

RECURSIVE disableDirectivesLoop(_, _, _, _)
disableDirectivesLoop(toks, nodes, i, acc) ==
    IF i < Len(nodes)
    THEN LET r == disableDirectiveOf(toks, At(nodes, i), acc)
         IN  IF r.threw THEN r ELSE disableDirectivesLoop(toks, nodes, i + 1, r.value)
    ELSE Returned(acc)

getDisableDirectives(toks, cs, cache) ==
    LET g == getInlineConfigNodes(toks, cs, cache)
    IN  IF g.call.threw THEN g
        ELSE [call |-> disableDirectivesLoop(toks, g.call.value, 0,
                                             [problems |-> <<>>, directives |-> <<>>]),
              cache |-> g.cache]

GetDisableDirectives ==
    LET g == getDisableDirectives(tokens, comments, inlineConfigComments)
    IN  /\ inlineConfigComments' = g.cache
        /\ ret' = [op |-> "getDisableDirectives", call |-> g.call]
        /\ UNCHANGED <<ast, tokens, comments, tokenStarts, tokenEnds, steps, parents,
                       results, walks>>

\* Variant: every label of an inline-configuration comment is taken.
isRuleConfigLoose(label) == label \in InlineLabels

\* label === "eslint"
isRuleConfig(label) == label = "eslint"

\* The callback of applyInlineConfig for one comment.
inlineConfigOf(toks, c, acc) ==
    LET comment == At(toks, c)
        text == getCommentValue(comment)
        parsed == parseDirective(text.value)
    IN  IF text.threw THEN text
        ELSE IF parsed = None THEN Thrown("TypeError")
        ELSE LET d == Get(parsed)
                 parseResult == parseJSONLikeConfig(d.value)
             IN  IF isRuleConfig(d.label)
                 THEN IF parseResult.ok
                      THEN Returned([configs |-> Append(acc.configs,
                                        [config |-> [rules |-> parseResult.config],
                                         loc |-> comment.loc,
                                         of |-> c]),
                                     problems |-> acc.problems])
                      ELSE Returned([configs |-> acc.configs,
                                     problems |-> Append(acc.problems,
                                        [ruleId |-> "null",
                                         message |-> parseResult.error.message,
                                         loc |-> comment.loc,
                                         of |-> c])])
                 ELSE Returned(acc)

RECURSIVE inlineConfigLoop(_, _, _, _)
inlineConfigLoop(toks, nodes, i, acc) ==
    IF i < Len(nodes)
    THEN LET r == inlineConfigOf(toks, At(nodes, i), acc)
         IN  IF r.threw THEN r ELSE inlineConfigLoop(toks, nodes, i + 1, r.value)
    ELSE Returned(acc)

applyInlineConfig(toks, cs, cache) ==
    LET g == getInlineConfigNodes(toks, cs, cache)
    IN  IF g.call.threw THEN g
        ELSE [call |-> inlineConfigLoop(toks, g.call.value, 0,
                                        [configs |-> <<>>, problems |-> <<>>]),
              cache |-> g.cache]

ApplyInlineConfig ==
    LET g == applyInlineConfig(tokens, comments, inlineConfigComments)
    IN  /\ inlineConfigComments' = g.cache
        /\ ret' = [op |-> "applyInlineConfig", call |-> g.call]
        /\ UNCHANGED <<ast, tokens, comments, tokenStarts, tokenEnds, steps, parents,
                       results, walks>>

-----------------------------------------------------------------------------
(* Inputs and the state after construction.                                *)

OneNode == [size |-> 1, children |-> [n \in {1} |-> <<>>]]

NavInputs == {[ast |-> OneNode, tokens |-> Layout(ps, 0)] : ps \in SeqsUpTo(NavProtos, MaxTokens)}

\* The documents of the traversal: every AST, over one code token.
TreeInputs == {[ast |-> a, tokens |-> Layout(<<Code1>>, 0)] : a \in ASTs}

\* The documents of the inline configuration: comment arrays over one node.
DirInputs ==
    {[ast |-> OneNode, tokens |-> Layout(ps, 0)] : ps \in SeqsUpTo(DirProtos, MaxDirTokens)}

Inputs == NavInputs \cup TreeInputs \cup DirInputs

InitOf(in) ==
    LET p == processTokens(in.tokens)
    IN  /\ ast = in.ast
        /\ tokens = in.tokens
        /\ comments = p.comments
        /\ tokenStarts = p.starts
        /\ tokenEnds = p.ends
        /\ steps = None
        /\ parents = EmptyMap
        /\ inlineConfigComments = None
        /\ results = <<>>
        /\ walks = 0
        /\ ret = [op |-> "new"]

Init == \E in \in Inputs : InitOf(in)

Next ==
    \/ GetTokenBefore
    \/ GetTokenAfter
    \/ Traverse
    \/ GetParent
    \/ GetInlineConfigNodes
    \/ GetDisableDirectives
    \/ ApplyInlineConfig

Spec == Init /\ [][Next]_vars

-----------------------------------------------------------------------------
(* The caller's use of what traverse() returned.                           *)

\* One next() of the iteration of result i.  An array iterator reads the
\* array it was made from, which is the array this.#steps holds; so does a
\* for-of loop over the array the first call returned.
IterNext(i) ==
    /\ steps # None
    /\ results[i].pos < Len(Get(steps))
    /\ results' = [results EXCEPT ![i].pos = @ + 1,
                                   ![i].out = Append(@, At(Get(steps), results[i].pos))]
    /\ ret' = [op |-> "next", result |-> i]
    /\ UNCHANGED <<ast, tokens, comments, tokenStarts, tokenEnds, steps, parents,
                   inlineConfigComments, walks>>

\* A second for-of loop over result i.  Over the array it starts again from
\* the first step; an array iterator is its own iterator and goes on from
\* where it is, which changes nothing.
Rewind(i) ==
    /\ results[i].kind = "array"
    /\ results[i].pos > 0
    /\ results' = [results EXCEPT ![i].pos = 0, ![i].out = <<>>]
    /\ ret' = [op |-> "rewind", result |-> i]
    /\ UNCHANGED <<ast, tokens, comments, tokenStarts, tokenEnds, steps, parents,
                   inlineConfigComments, walks>>

\* result.pop() on the array the first call returned: it is the array
\* this.#steps holds.
ArrayPop(i) ==
    /\ results[i].kind = "array"
    /\ steps # None
    /\ Get(steps) # <<>>
    /\ steps' = Some(SubSeq(Get(steps), 1, Len(Get(steps)) - 1))
    /\ ret' = [op |-> "pop", result |-> i]
    /\ UNCHANGED <<ast, tokens, comments, tokenStarts, tokenEnds, parents,
                   inlineConfigComments, results, walks>>

InitCaller == \E in \in {t \in TreeInputs : t.ast.size <= MaxCallerNodes} : InitOf(in)

NextCaller ==
    \/ Next
    \/ \E i \in DOMAIN results : IterNext(i)
    \/ \E i \in DOMAIN results : Rewind(i)
    \/ \E i \in DOMAIN results : ArrayPop(i)

SpecCaller == InitCaller /\ [][NextCaller]_vars

-----------------------------------------------------------------------------
(* Properties: the token boundary maps.                                    *)

LaterSharesStart(toks, i) ==
    \E j \in i + 1 .. Len(toks) - 1 : At(toks, j).range[1] = At(toks, i).range[1]

LaterSharesEnd(toks, i) ==
    \E j \in i + 1 .. Len(toks) - 1 : At(toks, j).range[2] = At(toks, i).range[2]

\* C1, as stated: for every token t at index i of any token array, the
\* start-offset map sends t.range[0] to i and the end-offset map sends
\* t.range[1] to i.
C1_EveryTokenIndexed ==
    \A i \in 0 .. Len(tokens) - 1 :
        /\ At(tokens, i).range[1] \in DOMAIN tokenStarts
        /\ tokenStarts[At(tokens, i).range[1]] = i
        /\ At(tokens, i).range[2] \in DOMAIN tokenEnds
        /\ tokenEnds[At(tokens, i).range[2]] = i

\* C1, amended: the start-offset map sends t.range[0] to i for every token t
\* at index i whose start offset no later token shares, and the end-offset
\* map sends t.range[1] to i for every token whose end offset no later
\* token shares.
C1_LastTokenOfOffsetIndexed ==
    \A i \in 0 .. Len(tokens) - 1 :
        /\ ~LaterSharesStart(tokens, i) =>
              /\ At(tokens, i).range[1] \in DOMAIN tokenStarts
              /\ tokenStarts[At(tokens, i).range[1]] = i
        /\ ~LaterSharesEnd(tokens, i) =>
              /\ At(tokens, i).range[2] \in DOMAIN tokenEnds
              /\ tokenEnds[At(tokens, i).range[2]] = i

\* A token array of three tokens where the last two share a start offset
\* and the first two an end offset.
C1_Witness ==
    /\ Len(tokens) = 3
    /\ LaterSharesStart(tokens, 1)
    /\ LaterSharesEnd(tokens, 0)
    /\ tokenStarts[At(tokens, 2).range[1]] = 2
    /\ tokenEnds[At(tokens, 1).range[2]] = 1

-----------------------------------------------------------------------------
(* Properties: the traversal.                                              *)

SameTargetsAndPhases(a, b) ==
    /\ Len(a) = Len(b)
    /\ \A k \in DOMAIN a : a[k].target = b[k].target /\ a[k].phase = b[k].phase

\* C2: any two calls of traverse(), whatever operations of the model lie
\* between them, return the same sequence of targets and phases, and the
\* AST was walked once, by the first call.
C2_TraverseCallsAgree ==
    /\ \A i, j \in DOMAIN results : SameTargetsAndPhases(results[i].seq, results[j].seq)
    /\ walks = IF results = <<>> THEN 0 ELSE 1

\* Two calls were made on an AST of several nodes, and another operation
\* of the model came last.
C2_Witness ==
    /\ Len(results) = 2
    /\ Len(results[2].seq) = 2 * MaxNodes
    /\ ret.op = "getDisableDirectives"

\* The positions of the steps of a node in a step sequence.
EnterOf(S, n) == {k \in DOMAIN S : S[k].target = n /\ S[k].phase = 1}
ExitOf(S, n) == {k \in DOMAIN S : S[k].target = n /\ S[k].phase = 2}

\* C4: the cached steps are the depth-first walk: one Enter and one Exit
\* step per node and no other step; the Enter step of a node comes before
\* the steps of its children and these before its Exit step; the children
\* are walked in the order of the child sequence, one after the other.
C4_DepthFirstWalk ==
    steps # None =>
        LET S == Get(steps)
            enter(n) == CHOOSE k \in EnterOf(S, n) : TRUE
            exit(n) == CHOOSE k \in ExitOf(S, n) : TRUE
        IN  /\ Len(S) = 2 * ast.size
            /\ \A k \in DOMAIN S : S[k].target \in Nodes(ast) /\ S[k].phase \in {1, 2}
            /\ \A n \in Nodes(ast) :
                  /\ Cardinality(EnterOf(S, n)) = 1
                  /\ Cardinality(ExitOf(S, n)) = 1
            /\ \A n \in Nodes(ast) :
                  LET kids == ast.children[n]
                  IN  /\ enter(n) < exit(n)
                      /\ \A k \in DOMAIN kids :
                            /\ enter(n) < enter(kids[k])
                            /\ exit(kids[k]) < exit(n)
                      /\ \A k \in 1 .. Len(kids) - 1 :
                            exit(kids[k]) < enter(kids[k + 1])

\* The walk of a tree of depth two whose root lists its children against
\* the order of their names.
C4_Witness ==
    /\ steps # None
    /\ ast.size = 4
    /\ ast.children[1] = <<3, 2>>
    /\ ast.children[2] = <<4>>

\* The node whose child sequence holds n (Undefined for the root and for a
\* node outside the tree).
ASTParent(a, n) ==
    IF \E m \in Nodes(a) : \E k \in DOMAIN a.children[m] : a.children[m][k] = n
    THEN CHOOSE m \in Nodes(a) : \E k \in DOMAIN a.children[m] : a.children[m][k] = n
    ELSE Undefined

\* C5: before the first call of traverse(), getParent returns undefined for
\* every node; after it, the AST parent for every node but the root, and
\* undefined for the root and for a node that is no part of the document.
C5_ParentsAfterTraversal ==
    LET expected(n) == IF results = <<>> THEN Undefined ELSE ASTParent(ast, n)
    IN  /\ \A n \in Nodes(ast) \cup {Stranger(ast)} : getParent(parents, n) = expected(n)
        /\ ret.op = "getParent" => ret.value = expected(ret.node)

\* getParent returned the parent of a node below the root's child.
C5_Witness ==
    /\ ret.op = "getParent"
    /\ ret.value # Undefined
    /\ ret.value # 1

IsPrefix(a, b) == Len(a) <= Len(b) /\ \A k \in DOMAIN a : a[k] = b[k]

\* C3: every call of traverse(), the first included, returns an independent
\* iterator over the same cached sequence: every result iterates the
\* sequence that the first call cached, from its first step, and nothing
\* done with a result changes the cached sequence.
C3_ResultsIndependent ==
    \A i \in DOMAIN results :
        /\ results[i].seq = results[1].seq
        /\ IsPrefix(results[i].out, results[1].seq)
        /\ steps = Some(results[1].seq)

-----------------------------------------------------------------------------
(* Properties: the token navigation.                                       *)

\* C6, as stated: without includeComments the result is never a comment;
\* with includeComments, a comment right before (after) the argument is the
\* result.
C6_AdjacentComment ==
    /\ ret.op = "getTokenBefore" =>
          /\ (~ret.includeComments /\ ret.value # NullTok) => ~IsComment(tokens, ret.value)
          /\ (ret.includeComments /\ ret.arg.first >= 1
                /\ IsComment(tokens, ret.arg.first - 1)) =>
                ret.value = ret.arg.first - 1
    /\ ret.op = "getTokenAfter" =>
          /\ (~ret.includeComments /\ ret.value # NullTok) => ~IsComment(tokens, ret.value)
          /\ (ret.includeComments /\ ret.arg.last # NullTok
                /\ ret.arg.last + 1 < Len(tokens)
                /\ IsComment(tokens, ret.arg.last + 1)) =>
                ret.value = ret.arg.last + 1

\* C6, amended: without includeComments the result is never a comment; with
\* includeComments, a comment right before the argument is the result of
\* getTokenBefore when no later token shares the start offset of the
\* argument, and a comment right after it is the result of getTokenAfter
\* when no later token shares its end offset.
C6_AdjacentCommentOfLastOffset ==
    /\ ret.op = "getTokenBefore" =>
          /\ (~ret.includeComments /\ ret.value # NullTok) => ~IsComment(tokens, ret.value)
          /\ (ret.includeComments /\ ret.arg.first >= 1
                /\ IsComment(tokens, ret.arg.first - 1)
                /\ ~LaterSharesStart(tokens, ret.arg.first)) =>
                ret.value = ret.arg.first - 1
    /\ ret.op = "getTokenAfter" =>
          /\ (~ret.includeComments /\ ret.value # NullTok) => ~IsComment(tokens, ret.value)
          /\ (ret.includeComments /\ ret.arg.last # NullTok
                /\ ret.arg.last + 1 < Len(tokens)
                /\ IsComment(tokens, ret.arg.last + 1)
                /\ ~LaterSharesEnd(tokens, ret.arg.last)) =>
                ret.value = ret.arg.last + 1

\* getTokenBefore with includeComments returned the comment before the last
\* token, in an array whose first two tokens share a start offset.
C6_Witness ==
    /\ ret.op = "getTokenBefore"
    /\ ret.includeComments
    /\ ret.arg.first = 2
    /\ ret.value = 1
    /\ IsComment(tokens, 1)
    /\ LaterSharesStart(tokens, 0)

-----------------------------------------------------------------------------
(* Properties: the inline-configuration comments.                          *)

\* What the parser makes of comment c.
ParsedOf(c) == Get(parseDirective(getCommentValue(At(tokens, c)).value))

ProblemsOf(out, c) == {p \in DOMAIN out.problems : out.problems[p].of = c}
DirectivesOf(out, c) == {p \in DOMAIN out.directives : out.directives[p].node = c}
ConfigsOf(out, c) == {p \in DOMAIN out.configs : out.configs[p].of = c}

BadComments == {k \in DOMAIN comments :
                  At(tokens, comments[k]).type \notin {"LineComment", "BlockComment"}}

\* C7: in getDisableDirectives, an eslint-disable-line comment that ends on
\* another line than it starts on adds one problem (ruleId null, the
\* message about spanning lines, the loc of the comment) and no directive;
\* one that starts and ends on the same line adds no problem.
C7_DisableLineSpan ==
    (ret.op = "getDisableDirectives" /\ ~ret.call.threw) =>
        LET out == ret.call.value
            nodes == Get(inlineConfigComments)
        IN  \A k \in DOMAIN nodes :
                LET c == nodes[k]
                    comment == At(tokens, c)
                IN  ParsedOf(c).label = "eslint-disable-line" =>
                        IF comment.loc.start.line # comment.loc.end.line
                        THEN /\ Cardinality(ProblemsOf(out, c)) = 1
                             /\ \A p \in ProblemsOf(out, c) :
                                   out.problems[p] =
                                     [ruleId |-> "null",
                                      message |-> <<"eslint-disable-line",
                                                    "comment should not span multiple lines.">>,
                                      loc |-> comment.loc,
                                      of |-> c]
                             /\ DirectivesOf(out, c) = {}
                        ELSE ProblemsOf(out, c) = {}

\* Scenario B next to scenario A: one problem and one directive.
C7_Witness ==
    /\ ret.op = "getDisableDirectives"
    /\ ~ret.call.threw
    /\ Len(tokens) = 2
    /\ At(tokens, 0).text = BlockDisableLineMulti.text
    /\ At(tokens, 1).text = LineDisableLine.text
    /\ Len(ret.call.value.problems) = 1
    /\ Len(ret.call.value.directives) = 1

ExpectedType(label) ==
    CASE label = "eslint-disable" -> "disable"
      [] label = "eslint-enable" -> "enable"
      [] label = "eslint-disable-next-line" -> "disable-next-line"
      [] label = "eslint-disable-line" -> "disable-line"

\* C8: in getDisableDirectives, a valid comment of one of the four
\* disable/enable labels makes one Directive: the label without eslint- as
\* its type, the comment as its node, the parsed value and justification;
\* a comment of the label eslint or of another label makes no Directive and
\* no problem; the call throws only over a comment type it does not know.
C8_DirectivePerComment ==
    ret.op = "getDisableDirectives" =>
        IF ret.call.threw THEN BadComments # {}
        ELSE LET out == ret.call.value
                 nodes == Get(inlineConfigComments)
             IN  \A k \in DOMAIN nodes :
                     LET c == nodes[k]
                         comment == At(tokens, c)
                         d == ParsedOf(c)
                         valid == ~(d.label = "eslint-disable-line"
                                    /\ comment.loc.start.line # comment.loc.end.line)
                     IN  IF d.label \in DirectiveLabels
                         THEN valid =>
                                /\ Cardinality(DirectivesOf(out, c)) = 1
                                /\ \A p \in DirectivesOf(out, c) :
                                      out.directives[p] =
                                        [type |-> ExpectedType(d.label),
                                         node |-> c,
                                         value |-> d.value,
                                         justification |-> d.justification]
                                /\ comment.text = LineDisableLine.text =>
                                      \A p \in DirectivesOf(out, c) :
                                          /\ out.directives[p].type = "disable-line"
                                          /\ out.directives[p].value = <<"r">>
                                          /\ out.directives[p].justification = <<"why">>
                         ELSE /\ DirectivesOf(out, c) = {}
                              /\ ProblemsOf(out, c) = {}

\* A rule-configuration comment next to a disable-next-line comment: one
\* directive, no problem.
C8_Witness ==
    /\ ret.op = "getDisableDirectives"
    /\ ~ret.call.threw
    /\ Len(tokens) = 2
    /\ At(tokens, 0).text = BlockEslintOk.text
    /\ At(tokens, 1).text = BlockNextLine.text
    /\ ret.call.value.problems = <<>>
    /\ Len(ret.call.value.directives) = 1
    /\ ret.call.value.directives[1].type = "disable-next-line"
    /\ ret.call.value.directives[1].justification = <<"why">>

\* C9: applyInlineConfig takes the comments of the label eslint alone: one
\* whose value parses adds one entry (the parsed rules, the loc of the
\* comment) and no problem, one whose value does not parse adds one problem
\* (ruleId null, the message of the parser, the loc) and no entry, and the
\* comments after it are still taken: the entries and problems together
\* are as many as the comments of the label eslint.
C9_ConfigPerComment ==
    (ret.op = "applyInlineConfig" /\ ~ret.call.threw) =>
        LET out == ret.call.value
            nodes == Get(inlineConfigComments)
            labelled == {k \in DOMAIN nodes : ParsedOf(nodes[k]).label = "eslint"}
        IN  /\ Len(out.configs) + Len(out.problems) = Cardinality(labelled)
            /\ \A k \in DOMAIN nodes :
                  LET c == nodes[k]
                      comment == At(tokens, c)
                      d == ParsedOf(c)
                      parseResult == parseJSONLikeConfig(d.value)
                  IN  IF d.label # "eslint"
                      THEN ConfigsOf(out, c) = {} /\ ProblemsOf(out, c) = {}
                      ELSE IF parseResult.ok
                      THEN /\ Cardinality(ConfigsOf(out, c)) = 1
                           /\ \A p \in ConfigsOf(out, c) :
                                 out.configs[p] = [config |-> [rules |-> parseResult.config],
                                                   loc |-> comment.loc, of |-> c]
                           /\ ProblemsOf(out, c) = {}
                      ELSE /\ Cardinality(ProblemsOf(out, c)) = 1
                           /\ \A p \in ProblemsOf(out, c) :
                                 out.problems[p] = [ruleId |-> "null",
                                                    message |-> parseResult.error.message,
                                                    loc |-> comment.loc, of |-> c]
                           /\ ConfigsOf(out, c) = {}

\* Scenario D followed by scenario C: the problem of the first comment and
\* the entry of the second.
C9_Witness ==
    /\ ret.op = "applyInlineConfig"
    /\ ~ret.call.threw
    /\ Len(tokens) = 2
    /\ At(tokens, 0).text = LineEslintBad.text
    /\ At(tokens, 1).text = BlockEslintOk.text
    /\ Len(ret.call.value.problems) = 1
    /\ Len(ret.call.value.configs) = 1
    /\ ret.call.value.configs[1].config.rules = {<<"r", 2>>}

\* C10: over a token array with a comment (type ending in Comment) that is
\* neither LineComment nor BlockComment, the three operations throw the
\* error of #getCommentValue, every time, and the cache of
\* inline-configuration comments stays undefined.
C10_UnknownCommentTypeThrows ==
    BadComments # {} =>
        /\ inlineConfigComments = None
        /\ ret.op \in {"getInlineConfigNodes", "getDisableDirectives", "applyInlineConfig"} =>
              /\ ret.call.threw
              /\ \E k \in BadComments :
                    ret.call.error = <<"Unexpected comment type", At(tokens, comments[k]).type>>

\* applyInlineConfig threw over an unknown comment that follows a
\* rule-configuration comment.
C10_Witness ==
    /\ ret.op = "applyInlineConfig"
    /\ ret.call.threw
    /\ Len(tokens) = 2
    /\ At(tokens, 0).text = BlockEslintOk.text
    /\ At(tokens, 1).type = "DocComment"
    /\ inlineConfigComments = None

-----------------------------------------------------------------------------
(* Properties: the navigation from the index of the offset maps.           *)

\* The state of the model proper (all but the record of the calls).
modelState == <<ast, tokens, comments, tokenStarts, tokenEnds, steps, parents,
                inlineConfigComments>>

Greatest(S) == CHOOSE x \in S : \A y \in S : y <= x
Least(S) == CHOOSE x \in S : \A y \in S : x <= y

NotCommentsIn(S) == {j \in S : ~IsComment(tokens, j)}

\* What C11 says getTokenBefore returns.
C11_Expected ==
    LET s == ret.arg.range[1]
        i == tokenStarts[s]
    IN  IF s \notin DOMAIN tokenStarts THEN NullTok
        ELSE IF i = 0 THEN NullTok
        ELSE IF ret.includeComments THEN i - 1
        ELSE IF NotCommentsIn(0 .. i - 1) = {} THEN NullTok
        ELSE Greatest(NotCommentsIn(0 .. i - 1))

\* C11: getTokenBefore returns null when the start offset of the argument
\* is no key of the start-offset map or maps to index 0; else, with i the
\* index of the map, the token at i - 1 with includeComments, and without
\* it the last token below i that is no comment, or null when there is
\* none; the call changes no state of the model.
C11_TokenBefore ==
    /\ [](ret.op = "getTokenBefore" => ret.value = C11_Expected)
    /\ [][ret'.op = "getTokenBefore" => UNCHANGED modelState]_vars

\* getTokenBefore of the last of three tokens skipped the comment before
\* it and returned the first token.
C11_Witness ==
    /\ ret.op = "getTokenBefore"
    /\ ~ret.includeComments
    /\ ret.arg.first = 2
    /\ tokenStarts[ret.arg.range[1]] = 2
    /\ IsComment(tokens, 1)
    /\ ret.value = 0

\* What C12 says getTokenAfter returns.
C12_Expected ==
    LET e == ret.arg.range[2]
        i == tokenEnds[e]
        last == Len(tokens) - 1
    IN  IF e \notin DOMAIN tokenEnds THEN NullTok
        ELSE IF i = last THEN NullTok
        ELSE IF ret.includeComments THEN i + 1
        ELSE IF NotCommentsIn(i + 1 .. last) = {} THEN NullTok
        ELSE Least(NotCommentsIn(i + 1 .. last))

\* C12: getTokenAfter returns null when the end offset of the argument is
\* no key of the end-offset map or maps to the last index; else, with i the
\* index of the map, the token at i + 1 with includeComments, and without
\* it the first token above i that is no comment, or null when there is
\* none.
C12_TokenAfter == ret.op = "getTokenAfter" => ret.value = C12_Expected

\* getTokenAfter of the first of three tokens skipped the comment after it
\* and returned the last token.
C12_Witness ==
    /\ ret.op = "getTokenAfter"
    /\ ~ret.includeComments
    /\ Len(tokens) = 3
    /\ ret.arg.last = 0
    /\ tokenEnds[ret.arg.range[2]] = 0
    /\ IsComment(tokens, 1)
    /\ ret.value = 2

\* The tokens that start (end) where token i starts (ends).
SameStart(i) == {j \in 0 .. Len(tokens) - 1 : At(tokens, j).range[1] = At(tokens, i).range[1]}
SameEnd(i) == {j \in 0 .. Len(tokens) - 1 : At(tokens, j).range[2] = At(tokens, i).range[2]}

\* C13: a start offset that several tokens share is sent to the greatest
\* of their indices by the start-offset map, and a shared end offset
\* likewise by the end-offset map; getTokenBefore and getTokenAfter of any
\* of these tokens are computed from that last index.
C13_LastTokenWins ==
    /\ \A i \in 0 .. Len(tokens) - 1 :
          /\ Cardinality(SameStart(i)) >= 2 =>
                tokenStarts[At(tokens, i).range[1]] = Greatest(SameStart(i))
          /\ Cardinality(SameEnd(i)) >= 2 =>
                tokenEnds[At(tokens, i).range[2]] = Greatest(SameEnd(i))
    /\ (ret.op = "getTokenBefore" /\ ret.arg.first # NullTok
          /\ ret.arg.first = ret.arg.last
          /\ Cardinality(SameStart(ret.arg.first)) >= 2) =>
          LET from == Greatest(SameStart(ret.arg.first))
          IN  ret.value =
                IF from = 0 THEN NullTok
                ELSE IF ret.includeComments THEN from - 1
                ELSE IF NotCommentsIn(0 .. from - 1) = {} THEN NullTok
                ELSE Greatest(NotCommentsIn(0 .. from - 1))
    /\ (ret.op = "getTokenAfter" /\ ret.arg.first # NullTok
          /\ ret.arg.first = ret.arg.last
          /\ Cardinality(SameEnd(ret.arg.last)) >= 2) =>
          LET from == Greatest(SameEnd(ret.arg.last))
              last == Len(tokens) - 1
          IN  ret.value =
                IF from = last THEN NullTok
                ELSE IF ret.includeComments THEN from + 1
                ELSE IF NotCommentsIn(from + 1 .. last) = {} THEN NullTok
                ELSE Least(NotCommentsIn(from + 1 .. last))

\* getTokenBefore of a zero-width token whose start offset the next token
\* shares returned the zero-width token itself.
C13_Witness ==
    /\ ret.op = "getTokenBefore"
    /\ ret.includeComments
    /\ Len(tokens) = 3
    /\ ret.arg.first = 1 /\ ret.arg.last = 1
    /\ SameStart(1) = {1, 2}
    /\ tokenStarts[At(tokens, 1).range[1]] = 2
    /\ ret.value = 1

DistinctOffsets ==
    \A i, j \in 0 .. Len(tokens) - 1 :
        i # j => /\ At(tokens, i).range[1] # At(tokens, j).range[1]
                 /\ At(tokens, i).range[2] # At(tokens, j).range[2]

\* C14: over tokens of pairwise distinct start offsets and pairwise
\* distinct end offsets, with includeComments, getTokenAfter of
\* getTokenBefore(t) is t for every token t but the first, and
\* getTokenBefore of getTokenAfter(t) is t for every token t but the last.
C14_NavigationInverse ==
    (DistinctOffsets /\ ret.op \in {"getTokenBefore", "getTokenAfter"}
      /\ ret.includeComments /\ ret.arg.first # NullTok /\ ret.arg.first = ret.arg.last) =>
        LET t == ret.arg.first
        IN  /\ (ret.op = "getTokenBefore" /\ t # 0) =>
                  /\ ret.value # NullTok
                  /\ getTokenAfter(tokens, tokenEnds, At(tokens, ret.value).range, TRUE) = t
            /\ (ret.op = "getTokenAfter" /\ t # Len(tokens) - 1) =>
                  /\ ret.value # NullTok
                  /\ getTokenBefore(tokens, tokenStarts, At(tokens, ret.value).range, TRUE) = t

\* getTokenBefore of the middle one of three tokens of distinct offsets
\* returned the comment before it.
C14_Witness ==
    /\ DistinctOffsets
    /\ Len(tokens) = 3
    /\ ret.op = "getTokenBefore"
    /\ ret.includeComments
    /\ ret.arg.first = 1 /\ ret.arg.last = 1
    /\ ret.value = 0
    /\ IsComment(tokens, 0)

====
